---- MODULE Spec2Model ----
(***************************************************************************)
(* Model of the stocks backend (backend-python/app.py).                    *)
(*                                                                         *)
(*   SpecChange  read_latest_from_csv : the Horizon Matcher                *)
(*   SpecCross   the MACD crossover classification of                      *)
(*               compute_indicators_from_csv                               *)
(*   SpecInd     compute_indicators_from_csv : row count, close column,    *)
(*               RSI(14)                                                   *)
(*   SpecSector  sector_heatmap : the per-sector average                   *)
(*                                                                         *)
(* Each function is pure: Init of its specification draws the input, the   *)
(* single action applies the function as the code computes it.  Python     *)
(* floats are modelled as exact numbers (integers, rationals n/d).         *)
(***************************************************************************)
EXTENDS Integers, Sequences, FiniteSets, TLC

VARIABLES
    csv_rows,     \* the csv file read by read_latest_from_csv, as csv.reader yields it
    duration,     \* the duration token handed to read_latest_from_csv
    latest,       \* what read_latest_from_csv did: pending, raised, none or a summary
    macd_hist,    \* the MACD histogram handed to the crossover classification
    macd_crossover, \* its classification ("pending" before it ran)
    ind_closes,   \* the close column of the DataFrame pd.read_csv built
    ind_result,   \* what compute_indicators_from_csv did
    universe,     \* the universe entries, each with what the Horizon Matcher gave
    heatmap,      \* what sector_heatmap built
    total,        \* ingest: the number of symbols of the run
    ingest,       \* ingest: where main is (pc), the loop index i, what befell each symbol
    records,      \* ingest: the objects handed to write_progress, in order
    progress_file, \* ingest: whether --progress-file was given, and the file's content
    cache,        \* cache.py: the module's dict, an entry (result, timestamp) or none per key
    ttl_seconds,  \* cache.py: the ttl the function was wrapped with
    cache_call,   \* cache.py: the last call of the wrapper, as its caller saw it
    cache_ops     \* cache.py: the number of calls and sweeps so far

vars == <<csv_rows, duration, latest, macd_hist, macd_crossover,
          ind_closes, ind_result, universe, heatmap,
          total, ingest, records, progress_file,
          cache, ttl_seconds, cache_call, cache_ops>>

changeVars == <<csv_rows, duration, latest>>
crossVars  == <<macd_hist, macd_crossover>>
indVars    == <<ind_closes, ind_result>>
sectorVars == <<universe, heatmap>>
ingestVars == <<total, ingest, records, progress_file>>
cacheVars == <<cache, ttl_seconds, cache_call, cache_ops>>
otherVars == <<ingestVars, cacheVars>>

(***************************************************************************)
(* Bounds of the model.                                                    *)
(***************************************************************************)
MaxRows == 3        \* rows of a csv file handed to read_latest_from_csv
MaxHistLen == 3     \* values of a MACD histogram handed to the classification
MaxHistVal == 2     \* histogram values range over -MaxHistVal..MaxHistVal
MaxSymbols == 3     \* entries of the universe handed to sector_heatmap
MaxExtraRows == 1   \* rows of a DataFrame beyond the MinRows the code asks for
MaxTrendRows == 20  \* rows of a DataFrame handed to the moving averages
MaxIngestSymbols == 3 \* symbols of an ingest run
MaxTime == 3        \* the readings of time.time() range over 0..MaxTime
MaxOps == 4         \* calls of the wrapper and sweeps in a run

(***************************************************************************)
(* Python values.  None is the empty tuple, a value v is <<v>>.            *)
(***************************************************************************)
None == <<>>
Some(v) == <<v>>
IsNone(o) == o = <<>>
Val(o) == o[1]

Abs(x) == IF x < 0 THEN -x ELSE x

RECURSIVE Gcd(_, _)
Gcd(a, b) == IF b = 0 THEN a ELSE Gcd(b, a % b)

\* An exact rational <<n, d>> with d > 0, in lowest terms.
Rat(n, d) ==
    LET s == IF d < 0 THEN -1 ELSE 1
        g == Gcd(Abs(n), Abs(d))
    IN  <<(s * n) \div g, (s * d) \div g>>
RatInt(n) == <<n, 1>>
RatAdd(x, y) == Rat(x[1] * y[2] + y[1] * x[2], x[2] * y[2])
RatDivInt(x, k) == Rat(x[1], x[2] * k)

(***************************************************************************)
(* csv fields.  A field is a text; the model keeps of it what the code     *)
(* looks at: its length, whether its first character is a digit, and what  *)
(* strptime("%Y-%m-%d") and float() make of it.                            *)
(*   Ymd(y, m, d)  the text "YYYY-MM-DD" with those numbers                *)
(*   Num(v)        the decimal text of the natural number v                *)
(*   Text(n, dg)   a text of n characters that is neither a date nor a     *)
(*                 number; dg = 1 when its first character is a digit      *)
(*   EmptyField    the empty text                                          *)
(***************************************************************************)
Ymd(y, m, d) == [kind |-> "ymd", a |-> y, b |-> m, c |-> d]
Num(v)       == [kind |-> "num", a |-> v, b |-> 0, c |-> 0]
Text(n, dg)  == [kind |-> "text", a |-> n, b |-> dg, c |-> 0]
EmptyField   == [kind |-> "empty", a |-> 0, b |-> 0, c |-> 0]

RECURSIVE Digits(_)
Digits(v) == IF v < 10 THEN 1 ELSE 1 + Digits(v \div 10)

\* len(field)
FieldLen(f) ==
    CASE f.kind = "ymd"   -> 10
      [] f.kind = "num"   -> Digits(f.a)
      [] f.kind = "text"  -> f.a
      [] f.kind = "empty" -> 0

\* field[0].isdigit(), for a non-empty field
FirstIsDigit(f) ==
    CASE f.kind = "ymd"   -> TRUE
      [] f.kind = "num"   -> TRUE
      [] f.kind = "text"  -> f.b = 1
      [] f.kind = "empty" -> FALSE

(***************************************************************************)
(* datetime: the proleptic Gregorian ordinal of a date, as                 *)
(* datetime.strptime builds it and date subtraction uses it.               *)
(***************************************************************************)
IsLeap(y) == (y % 4 = 0) /\ ((y % 100 # 0) \/ (y % 400 = 0))

DaysInMonth(y, m) ==
    IF m = 2 THEN (IF IsLeap(y) THEN 29 ELSE 28)
    ELSE IF m \in {4, 6, 9, 11} THEN 30 ELSE 31

RECURSIVE DaysBeforeMonth(_, _)
DaysBeforeMonth(y, m) ==
    IF m <= 1 THEN 0 ELSE DaysBeforeMonth(y, m - 1) + DaysInMonth(y, m - 1)

ToOrdinal(y, m, d) ==
    LET p == y - 1
    IN  p * 365 + p \div 4 - p \div 100 + p \div 400 + DaysBeforeMonth(y, m) + d

\* datetime.strptime(field, "%Y-%m-%d"): the day number, or None for ValueError
Strptime(f) ==
    IF /\ f.kind = "ymd"
       /\ f.b \in 1..12
       /\ f.c \in 1..DaysInMonth(f.a, f.b)
    THEN Some(ToOrdinal(f.a, f.b, f.c))
    ELSE None

\* float(field): the number, or None for ValueError
Float(f) == IF f.kind = "num" THEN Some(f.a) ELSE None

(***************************************************************************)
(* read_latest_from_csv                                                    *)
(***************************************************************************)
\* A slip in the table: a week taken as five trading days.
DurationTradingDays(d) ==
    CASE d = "1d" -> 1
      [] d = "1w" -> 5
      [] d = "1m" -> 30
      [] d = "3m" -> 90
      [] d = "6m" -> 180
      [] d = "1y" -> 365
      [] OTHER    -> 1

\* duration_days = {...}.get(duration, 1)
DurationDays(d) ==
    CASE d = "1d" -> 1
      [] d = "1w" -> 7
      [] d = "1m" -> 30
      [] d = "3m" -> 90
      [] d = "6m" -> 180
      [] d = "1y" -> 365
      [] OTHER    -> 1

\* rows = [r for r in reader if r]
NonEmptyRows(rows) == SelectSeq(rows, LAMBDA r : Len(r) > 0)

\* r[0] and (len(r[0]) >= 4 and r[0][0].isdigit())
LooksLikeDate(r) ==
    /\ FieldLen(r[1]) > 0
    /\ FieldLen(r[1]) >= 4
    /\ FirstIsDigit(r[1])

\* data_rows = [r for r in rows if ...]
DataRows(rows) == SelectSeq(NonEmptyRows(rows), LooksLikeDate)

\* A slip in the comparison: a later row at the same distance replaces the candidate.
CloserOrEqual(diff, prev_diff) == diff <= prev_diff

\* diff < prev_diff : the comparison that lets a row replace the candidate
Closer(diff, prev_diff) == diff < prev_diff

\* The loop "for row in data_rows": the index in data_rows of prev after the
\* first k rows were scanned (0 while prev is None).
RECURSIVE ScanPrev(_, _, _)
ScanPrev(data, target, k) ==
    IF k = 0 THEN 0
    ELSE LET before == ScanPrev(data, target, k - 1)
             date   == Strptime(data[k][1])
         IN  IF IsNone(date) THEN before                   \* except ValueError: continue
             ELSE IF before = 0 THEN k                     \* prev_diff is None
             ELSE IF Closer(Abs(Val(date) - target),
                            Abs(Val(Strptime(data[before][1])) - target))
                  THEN k
                  ELSE before

\* close = float(last[2]) if len(last) > 2 and last[2] != "" else float(last[1]),
\* with the fallback float(last[1]) when that raises; None when both raise
LastClose(last) ==
    LET first == IF Len(last) > 2 /\ last[3] # EmptyField
                 THEN Float(last[3])
                 ELSE IF Len(last) > 1 THEN Float(last[2]) ELSE None
    IN  IF ~IsNone(first) THEN first
        ELSE IF Len(last) > 1 THEN Float(last[2]) ELSE None

\* prev_close = float(prev[2]) if len(prev) > 2 and prev[2] != "" else float(prev[1]),
\* None when that raises
PrevClose(prev) ==
    IF Len(prev) > 2 /\ prev[3] # EmptyField
    THEN Float(prev[3])
    ELSE IF Len(prev) > 1 THEN Float(prev[2]) ELSE None

\* A slip in the guard: a missing or zero previous close gives a change of 0.
ChangePctZeroDefault(close, prev_close) ==
    IF ~IsNone(prev_close) /\ Val(prev_close) # 0
    THEN Some(Rat((close - Val(prev_close)) * 100, Val(prev_close)))
    ELSE Some(RatInt(0))

\* change_pct = (close - prev_close) / prev_close * 100.0
ChangePct(close, prev_close) ==
    IF ~IsNone(prev_close) /\ Val(prev_close) # 0
    THEN Some(Rat((close - Val(prev_close)) * 100, Val(prev_close)))
    ELSE None

Pending == [status |-> "pending", date |-> None, close |-> None,
            prev_close |-> None, change_pct |-> None, prev |-> 0]

\* The whole function on the rows csv.reader yields.  status "none" is the
\* return of None, "raised" an exception leaving the function; prev is the
\* index in data_rows of the matched row.
ReadLatest(rows, dur) ==
    LET data == DataRows(rows)
    IN  IF Len(data) = 0 THEN [Pending EXCEPT !.status = "none"]
        ELSE
        LET last      == data[Len(data)]
            last_date == Strptime(last[1])
        IN  IF IsNone(last_date) THEN [Pending EXCEPT !.status = "raised"]
            ELSE
            LET target == Val(last_date) - DurationDays(dur)
                prev   == ScanPrev(data, target, Len(data))
                close  == LastClose(last)
            IN  IF IsNone(close)
                THEN [Pending EXCEPT !.status = "none", !.prev = prev]
                ELSE
                LET prev_close == IF prev = 0 THEN None ELSE PrevClose(data[prev])
                IN  [status     |-> "ok",
                     date       |-> Some(last[1]),
                     close      |-> close,
                     prev_close |-> prev_close,
                     change_pct |-> ChangePct(Val(close), prev_close),
                     prev       |-> prev]

(***************************************************************************)
(* Inputs of read_latest_from_csv.                                         *)
(***************************************************************************)
Durations == {"1d", "1w", "1m", "1y", "2w"}

RowPool ==
    { <<>>,                                         \* a blank line
      <<Text(4, 0), Text(5, 0)>>,                    \* Date,Close
      <<Ymd(2023, 12, 31), Num(90)>>,
      <<Ymd(2024, 1, 1), Num(100)>>,
      <<Ymd(2024, 1, 1), Num(0)>>,
      <<Ymd(2024, 1, 1), Text(3, 0)>>,               \* close does not parse
      <<Ymd(2024, 1, 1)>>,                           \* no close column
      <<Ymd(2024, 1, 2), Num(100), Num(120)>>,
      <<Ymd(2024, 1, 2), Num(105), EmptyField>>,
      <<Ymd(2024, 1, 8), Num(110)>>,
      <<Ymd(2024, 1, 8), Num(110), Text(1, 0)>>,
      <<Ymd(2024, 1, 8), Text(3, 0)>>,
      <<Ymd(2024, 13, 1), Num(100)>> }               \* looks like a date, is none

InitChange ==
    /\ \E k \in 0..MaxRows : csv_rows \in [1..k -> RowPool]
    /\ duration \in Durations
    /\ latest = Pending

ReadLatestFromCsv ==
    /\ latest.status = "pending"
    /\ latest' = ReadLatest(csv_rows, duration)
    /\ UNCHANGED <<csv_rows, duration>>

(***************************************************************************)
(* compute_indicators_from_csv: the crossover from the last two values of  *)
(* the MACD histogram.                                                     *)
(***************************************************************************)
\* A slip in the first test: a histogram that was at zero does not cross.
MacdCrossoverStrict(hist) ==
    IF Len(hist) >= 2
    THEN LET prev == hist[Len(hist) - 1]
             curr == hist[Len(hist)]
         IN  IF prev < 0 /\ curr > 0 THEN "bullish"
             ELSE IF prev > 0 /\ curr < 0 THEN "bearish"
             ELSE "neutral"
    ELSE "neutral"

\* A slip in the first test: a histogram that stays at zero crosses upwards.
MacdCrossoverInclusive(hist) ==
    IF Len(hist) >= 2
    THEN LET prev == hist[Len(hist) - 1]
             curr == hist[Len(hist)]
         IN  IF prev <= 0 /\ curr >= 0 THEN "bullish"
             ELSE IF prev >= 0 /\ curr < 0 THEN "bearish"
             ELSE "neutral"
    ELSE "neutral"

MacdCrossover(hist) ==
    IF Len(hist) >= 2
    THEN LET prev == hist[Len(hist) - 1]           \* macd_hist.iloc[-2]
             curr == hist[Len(hist)]               \* macd_hist.iloc[-1]
         IN  IF prev <= 0 /\ curr > 0 THEN "bullish"
             ELSE IF prev >= 0 /\ curr < 0 THEN "bearish"
             ELSE "neutral"
    ELSE "neutral"

InitCross ==
    /\ \E k \in 0..MaxHistLen : macd_hist \in [1..k -> (-MaxHistVal)..MaxHistVal]
    /\ macd_crossover = "pending"

ClassifyCrossover ==
    /\ macd_crossover = "pending"
    /\ macd_crossover' = MacdCrossover(macd_hist)
    /\ UNCHANGED macd_hist

(***************************************************************************)
(* Wide numbers.  The smoothed averages of n rows have denominators of the *)
(* size of 14^n, so they are kept as naturals of any size: a sequence of   *)
(* limbs, least significant first, zero the empty sequence.                *)
(***************************************************************************)
Limb == 10000

RECURSIVE Big(_)
Big(n) == IF n = 0 THEN <<>> ELSE <<n % Limb>> \o Big(n \div Limb)

RECURSIVE BigAddC(_, _, _)
BigAddC(x, y, c) ==
    IF x = <<>> /\ y = <<>> THEN Big(c)
    ELSE LET a == IF x = <<>> THEN 0 ELSE Head(x)
             b == IF y = <<>> THEN 0 ELSE Head(y)
             t == a + b + c
         IN  <<t % Limb>> \o BigAddC(IF x = <<>> THEN <<>> ELSE Tail(x),
                                      IF y = <<>> THEN <<>> ELSE Tail(y),
                                      t \div Limb)
BigAdd(x, y) == BigAddC(x, y, 0)

RECURSIVE BigMulC(_, _, _)
BigMulC(x, m, c) ==
    IF x = <<>> THEN Big(c)
    ELSE LET t == Head(x) * m + c
         IN  <<t % Limb>> \o BigMulC(Tail(x), m, t \div Limb)
\* x * m for a natural m below Limb
BigMulInt(x, m) == IF m = 0 THEN <<>> ELSE BigMulC(x, m, 0)

RECURSIVE BigMul(_, _)
BigMul(x, y) ==
    IF x = <<>> \/ y = <<>> THEN <<>>
    ELSE LET rest == BigMul(Tail(x), y)
         IN  BigAdd(BigMulInt(y, Head(x)),
                    IF rest = <<>> THEN <<>> ELSE <<0>> \o rest)

RECURSIVE BigPowMul(_, _, _)
\* x * m^k
BigPowMul(x, m, k) == IF k = 0 THEN x ELSE BigPowMul(BigMulInt(x, m), m, k - 1)

RECURSIVE BigLess(_, _)
BigLess(x, y) ==
    IF Len(x) # Len(y) THEN Len(x) < Len(y)
    ELSE IF x = <<>> THEN FALSE
    ELSE LET n == Len(x)
         IN  IF x[n] # y[n] THEN x[n] < y[n]
             ELSE BigLess(SubSeq(x, 1, n - 1), SubSeq(y, 1, n - 1))
BigLeq(x, y) == ~BigLess(y, x)

\* A non-negative fraction n/d of wide numbers, d > 0.
Frac(n, d) == [n |-> n, d |-> d]
FracInt(v) == Frac(Big(v), Big(1))
FracIsZero(x) == x.n = <<>>
\* x / y for y > 0
FracDiv(x, y) == Frac(BigMul(x.n, y.d), BigMul(x.d, y.n))
FracLeq(x, y) == BigLeq(BigMul(x.n, y.d), BigMul(y.n, x.d))

(***************************************************************************)
(* compute_indicators_from_csv: the row count, the close column, RSI(14).  *)
(* The input is the close column of the DataFrame pd.read_csv built (the   *)
(* header and the two skipped lines gone), a cell per row: Num(v), the     *)
(* empty cell (NaN), or a text that is no number.                          *)
(***************************************************************************)
MinRows == 10
RsiPeriod == 14

\* a cell as pandas reads it: the number, or None for NaN
CellValue(c) == IF c.kind = "num" THEN Some(c.a) ELSE None

\* close = df[close_col].astype(float) raises when a cell is a text
ColumnIsFloat(cells) ==
    \A i \in 1..Len(cells) : cells[i].kind \in {"num", "empty"}

\* delta = close.diff()
Diff(close) ==
    [i \in 1..Len(close) |->
        IF i = 1 \/ IsNone(close[i]) \/ IsNone(close[i - 1]) THEN None
        ELSE Some(Val(close[i]) - Val(close[i - 1]))]

\* gain = delta.clip(lower=0)
Gain(delta) ==
    [i \in 1..Len(delta) |->
        IF IsNone(delta[i]) THEN None
        ELSE Some(IF Val(delta[i]) < 0 THEN 0 ELSE Val(delta[i]))]

\* loss = -delta.clip(upper=0)
Loss(delta) ==
    [i \in 1..Len(delta) |->
        IF IsNone(delta[i]) THEN None
        ELSE Some(IF Val(delta[i]) > 0 THEN 0 ELSE -Val(delta[i]))]

\* series.ewm(alpha=an/ad, adjust=False).mean() up to position k, as pandas
\* computes it: w is the weighted average so far (None for NaN), age the
\* number of steps since the last observation, old_wt = (1 - alpha)^age.
\* A NaN keeps the average and ages it; an observation cur gives
\*   (old_wt * w + alpha * cur) / (old_wt + alpha).
RECURSIVE EwmState(_, _, _, _)
EwmState(vals, an, ad, k) ==
    IF k = 1 THEN [w   |-> IF IsNone(vals[1]) THEN None ELSE Some(FracInt(Val(vals[1]))),
                   age |-> 0]
    ELSE LET before == EwmState(vals, an, ad, k - 1)
             cur    == vals[k]
             age    == before.age + 1
         IN  IF IsNone(before.w)
             THEN [w   |-> IF IsNone(cur) THEN None ELSE Some(FracInt(Val(cur))),
                   age |-> 0]
             ELSE IF IsNone(cur) THEN [w |-> before.w, age |-> age]
             ELSE LET w    == Val(before.w)
                      old  == BigPowMul(Big(1), ad - an, age)         \* (ad-an)^age
                      new  == BigPowMul(Big(an), ad, age - 1)         \* an*ad^(age-1)
                  IN  [w   |-> Some(Frac(BigAdd(BigMul(old, w.n),
                                                BigMul(BigMulInt(new, Val(cur)), w.d)),
                                         BigMul(w.d, BigAdd(old, new)))),
                       age |-> 0]

\* the last value of series.ewm(alpha=an/ad, adjust=False).mean()
EwmLast(vals, an, ad) ==
    IF Len(vals) = 0 THEN None ELSE EwmState(vals, an, ad, Len(vals)).w

\* A slip: the zeros of avg_loss are not replaced, and x / 0 is inf for
\* x > 0 and NaN for x = 0.  The value is None for NaN, "inf" otherwise.
RsNoReplace(avg_gain, avg_loss) ==
    IF IsNone(avg_gain) \/ IsNone(avg_loss) THEN None
    ELSE IF FracIsZero(Val(avg_loss))
         THEN (IF FracIsZero(Val(avg_gain)) THEN None ELSE Some(Frac(Big(1), <<>>)))
         ELSE Some(FracDiv(Val(avg_gain), Val(avg_loss)))

\* rs = avg_gain / (avg_loss.replace(0, pd.NA)), at the last row
Rs(avg_gain, avg_loss) ==
    IF IsNone(avg_gain) \/ IsNone(avg_loss) THEN None
    ELSE IF FracIsZero(Val(avg_loss)) THEN None
    ELSE Some(FracDiv(Val(avg_gain), Val(avg_loss)))

\* rsi = 100 - (100 / (1 + rs)): with rs = p/q it is 100 - 100q/(p + q), kept
\* as the fraction n/d and its sign.  1 + inf is inf and 100 / inf is 0.
Rsi(rs) ==
    IF IsNone(rs) THEN None
    ELSE LET p == Val(rs).n
             q == Val(rs).d
             sub == Frac(BigMulInt(q, 100), BigAdd(p, q))     \* 100 / (1 + rs)
         IN  IF FracLeq(sub, FracInt(100))
             THEN Some([neg |-> FALSE,                         \* 100p / (p + q)
                        n   |-> BigMulInt(p, 100),
                        d   |-> BigAdd(p, q)])
             ELSE Some([neg |-> TRUE, n |-> sub.n, d |-> sub.d])

IndPending == [status |-> "pending", latest_close |-> None, rsi |-> None,
               avg_gain |-> None, avg_loss |-> None]

\* The function from the DataFrame on.  file is "missing" (no csv),
\* "unreadable" (pd.read_csv raises both times) or "ok".  avg_gain and
\* avg_loss are the locals at the last row, kept for the properties.
ComputeIndicators(df) ==
    IF df.file # "ok" THEN [IndPending EXCEPT !.status = "none"]
    ELSE IF Len(df.cells) < MinRows THEN [IndPending EXCEPT !.status = "none"]
    ELSE IF ~ColumnIsFloat(df.cells) THEN [IndPending EXCEPT !.status = "raised"]
    ELSE
    LET close    == [i \in 1..Len(df.cells) |-> CellValue(df.cells[i])]
        delta    == Diff(close)
        avg_gain == EwmLast(Gain(delta), 1, RsiPeriod)
        avg_loss == EwmLast(Loss(delta), 1, RsiPeriod)
    IN  [status       |-> "ok",
         latest_close |-> close[Len(close)],
         rsi          |-> Rsi(Rs(avg_gain, avg_loss)),
         avg_gain     |-> avg_gain,
         avg_loss     |-> avg_loss]

(***************************************************************************)
(* Inputs of compute_indicators_from_csv: every column of up to            *)
(* MinRows + MaxExtraRows closes of ClosePool, and each of them with one   *)
(* cell made empty or a text.                                              *)
(***************************************************************************)
ClosePool == {50, 51}
NumCells == { Num(v) : v \in ClosePool }
BadCells == { EmptyField, Text(3, 0) }

InitInd ==
    /\ \/ \E f \in {"missing", "unreadable"} : ind_closes = [file |-> f, cells |-> <<>>]
       \/ \E k \in 0..(MinRows + MaxExtraRows) :
            \E col \in [1..k -> NumCells] :
              \/ ind_closes = [file |-> "ok", cells |-> col]
              \/ \E p \in 1..k, bad \in BadCells :
                    ind_closes = [file |-> "ok", cells |-> [col EXCEPT ![p] = bad]]
    /\ ind_result = IndPending

ComputeIndicatorsFromCsv ==
    /\ ind_result.status = "pending"
    /\ ind_result' = ComputeIndicators(ind_closes)
    /\ UNCHANGED ind_closes

(***************************************************************************)
(* compute_indicators_from_csv: the moving averages, MACD and the          *)
(* crossover of the computed histogram.  The averages of a signed series   *)
(* need signed fractions; they are kept in lowest terms for the primes of  *)
(* the smoothing factors' denominators (span + 1 = 13, 22, 27 and 10).     *)
(***************************************************************************)
RECURSIVE BigTrim(_)
BigTrim(x) ==
    IF x = <<>> THEN <<>>
    ELSE IF x[Len(x)] = 0 THEN BigTrim(SubSeq(x, 1, Len(x) - 1)) ELSE x

RECURSIVE BigSubB(_, _, _)
BigSubB(x, y, b) ==
    IF x = <<>> THEN <<>>
    ELSE LET s == Head(x) - (IF y = <<>> THEN 0 ELSE Head(y)) - b
         IN  <<IF s < 0 THEN s + Limb ELSE s>> \o
             BigSubB(Tail(x), IF y = <<>> THEN <<>> ELSE Tail(y), IF s < 0 THEN 1 ELSE 0)
\* x - y for x >= y
BigSub(x, y) == BigTrim(BigSubB(x, y, 0))

RECURSIVE BigDivRem(_, _)
\* quotient and remainder of x by a natural m, 0 < m < Limb
BigDivRem(x, m) ==
    IF x = <<>> THEN [q |-> <<>>, r |-> 0]
    ELSE LET hi == BigDivRem(Tail(x), m)
             t  == hi.r * Limb + Head(x)
         IN  [q |-> IF hi.q = <<>> /\ t \div m = 0 THEN <<>> ELSE <<t \div m>> \o hi.q,
              r |-> t % m]

\* n / p and d / p, each with its remainder
DivBoth(f, p) == [n |-> BigDivRem(f.n, p), d |-> BigDivRem(f.d, p)]

RECURSIVE Cancel(_, _)
\* the fraction f = n/d with the common factors p taken out
CancelStep(q, f, p) ==
    IF q.n.r = 0 /\ q.d.r = 0 THEN Cancel([n |-> q.n.q, d |-> q.d.q], p) ELSE f
Cancel(f, p) ==
    IF f.n = <<>> THEN [n |-> <<>>, d |-> Big(1)] ELSE CancelStep(DivBoth(f, p), f, p)

Lowest(n, d) ==
    Cancel(Cancel(Cancel(Cancel(Cancel([n |-> n, d |-> d], 2), 3), 5), 11), 13)

\* A signed fraction: neg is its sign, n/d its magnitude, d > 0; zero is not neg.
Signed(neg, l) == [neg |-> neg /\ l.n # <<>>, n |-> l.n, d |-> l.d]
SFrac(neg, n, d) == Signed(neg, Lowest(n, d))
SInt(v) == [neg |-> v < 0, n |-> Big(Abs(v)), d |-> Big(1)]
SNeg(x) == [x EXCEPT !.neg = ~x.neg /\ x.n # <<>>]
\* (+-a +- b) / d
SAddOver(xneg, a, yneg, b, d) ==
    SFrac(IF xneg = yneg THEN xneg ELSE IF BigLess(a, b) THEN yneg ELSE xneg,
          IF xneg = yneg THEN BigAdd(a, b)
          ELSE IF BigLess(a, b) THEN BigSub(b, a) ELSE BigSub(a, b),
          d)
SAdd(x, y) ==
    SAddOver(x.neg, BigMul(x.n, y.d), y.neg, BigMul(y.n, x.d), BigMul(x.d, y.d))
SSub(x, y) == SAdd(x, SNeg(y))
\* x * m / q for wide naturals m and q > 0
SScale(x, m, q) == SFrac(x.neg, BigMul(x.n, m), BigMul(x.d, q))
SSign(x) == IF x.n = <<>> THEN 0 ELSE IF x.neg THEN -1 ELSE 1
SLess(x, y) == SSign(SSub(x, y)) < 0

\* series.ewm(alpha=an/ad, adjust=False).mean() over positions 1..k, the
\* whole series: mean[i] is None for NaN; age and the weights are those of
\* EwmState.  The first observation seeds the average.
RECURSIVE EwmMean(_, _, _, _)
EwmMean(vals, an, ad, k) ==
    IF k = 0 THEN [mean |-> <<>>, age |-> 0]
    ELSE LET before == EwmMean(vals, an, ad, k - 1)
             cur    == vals[k]
             w      == IF k = 1 THEN None ELSE before.mean[k - 1]
             age    == before.age + 1
         IN  IF IsNone(w) THEN [mean |-> Append(before.mean, cur), age |-> 0]
             ELSE IF IsNone(cur) THEN [mean |-> Append(before.mean, w), age |-> age]
             ELSE LET old == BigPowMul(Big(1), ad - an, age)
                      new == BigPowMul(Big(an), ad, age - 1)
                      sum == SAdd(SScale(Val(w), old, Big(1)),
                                  SScale(Val(cur), new, Big(1)))
                  IN  [mean |-> Append(before.mean,
                                       Some(SScale(sum, Big(1), BigAdd(old, new)))),
                       age  |-> 0]

\* close.ewm(span=span, adjust=False).mean(): alpha = 2 / (span + 1)
Ema(close, span) == EwmMean(close, 2, span + 1, Len(close)).mean

\* x - y of two series, NaN where either is
Minus(x, y) ==
    [i \in 1..Len(x) |->
        IF IsNone(x[i]) \/ IsNone(y[i]) THEN None ELSE Some(SSub(Val(x[i]), Val(y[i])))]

\* the last value of a series, None when it is NaN
Last(series) == series[Len(series)]

\* A slip: a histogram that ends at zero counts as having risen above it.
CrossoverOfInclusive(hist) ==
    IF Len(hist) < 2 THEN "neutral"
    ELSE LET prev == hist[Len(hist) - 1]
             curr == hist[Len(hist)]
         IN  IF IsNone(prev) \/ IsNone(curr) THEN "neutral"
             ELSE MacdCrossoverInclusive(<<SSign(Val(prev)), SSign(Val(curr))>>)

\* The classification of the computed histogram: a comparison with NaN is
\* false, so a NaN among the last two values leaves 'neutral'.
CrossoverOf(hist) ==
    IF Len(hist) < 2 THEN MacdCrossover(<<>>)
    ELSE LET prev == hist[Len(hist) - 1]
             curr == hist[Len(hist)]
         IN  IF IsNone(prev) \/ IsNone(curr) THEN "neutral"
             ELSE MacdCrossover(<<SSign(Val(prev)), SSign(Val(curr))>>)

TrendPending == [status |-> "pending", latest_close |-> None, rsi |-> None,
                 avg_gain |-> None, avg_loss |-> None, ema21 |-> None,
                 above_21 |-> None, macd |-> None, macd_signal |-> None,
                 macd_hist |-> None, macd_crossover |-> "pending"]

\* The function with its moving averages: the RSI part is ComputeIndicators,
\* ema21 is the local at the last row, kept for the properties.
Indicators(df) ==
    LET base == ComputeIndicators(df)
    IN  IF base.status # "ok" THEN [TrendPending EXCEPT !.status = base.status]
        ELSE
        LET close     == [i \in 1..Len(df.cells) |->
                            IF IsNone(CellValue(df.cells[i])) THEN None
                            ELSE Some(SInt(Val(CellValue(df.cells[i]))))]
            ema21     == Ema(close, 21)
            ema12     == Ema(close, 12)
            ema26     == Ema(close, 26)
            macd      == Minus(ema12, ema26)
            signal    == Ema(macd, 9)
            macd_hist_ == Minus(macd, signal)
        IN  [status         |-> "ok",
             latest_close   |-> base.latest_close,
             rsi            |-> base.rsi,
             avg_gain       |-> base.avg_gain,
             avg_loss       |-> base.avg_loss,
             ema21          |-> Last(ema21),
             above_21       |-> IF IsNone(Last(ema21)) THEN None
                                ELSE IF IsNone(Last(close)) THEN Some(FALSE)
                                ELSE Some(SLess(Val(Last(ema21)), Val(Last(close)))),
             macd           |-> Last(macd),
             macd_signal    |-> Last(signal),
             macd_hist      |-> Last(macd_hist_),
             macd_crossover |-> CrossoverOf(macd_hist_)]

(***************************************************************************)
(* Inputs of the moving averages: a column of up to MaxTrendRows rows      *)
(* whose close is constant, and each of them with its first, its last but *)
(* one or its last row moved off the constant or made empty.               *)
(***************************************************************************)
TrendPool == {50, 51}
OffCells == {Num(49), EmptyField}

InitTrend ==
    /\ \E k \in 0..MaxTrendRows, c \in TrendPool :
          \/ ind_closes = [file |-> "ok", cells |-> [i \in 1..k |-> Num(c)]]
          \/ \E p \in {1, k - 1, k} \cap 1..k, off \in OffCells :
                ind_closes = [file  |-> "ok",
                              cells |-> [i \in 1..k |-> IF i = p THEN off ELSE Num(c)]]
    /\ ind_result = TrendPending

ComputeAllIndicators ==
    /\ ind_result.status = "pending"
    /\ ind_result' = Indicators(ind_closes)
    /\ UNCHANGED ind_closes

(***************************************************************************)
(* sector_heatmap.  An entry of the universe is [sector, file]: sector is  *)
(* the entry's "sector" text ("" when the key is missing or empty), file   *)
(* the rows of data/ohlcv/<symbol>.csv or None when there is no such file. *)
(* The symbol of the i-th entry is i.                                      *)
(***************************************************************************)
ValidDurations == {"1d", "1w", "1m", "3m", "6m", "1y"}

\* sector = entry.get("sector") or "Unknown"
SectorName(e) == IF e.sector = "" THEN "Unknown" ELSE e.sector

\* latest = read_latest_from_csv(csv_path, duration), for an entry with a file
LatestOf(e, dur) == ReadLatest(Val(e.file), dur)

\* the entry gets a sym_obj: its csv exists and latest is not None
Listed(e, dur) == ~IsNone(e.file) /\ LatestOf(e, dur).status = "ok"

SymObj(i, e, dur) ==
    [symbol     |-> i,
     sector     |-> SectorName(e),
     date       |-> LatestOf(e, dur).date,
     close      |-> LatestOf(e, dur).close,
     change_pct |-> LatestOf(e, dur).change_pct]

\* The loop "for entry in universe": the sym_objs appended for the first k
\* entries, in order.
RECURSIVE SymObjs(_, _, _)
SymObjs(entries, dur, k) ==
    IF k = 0 THEN <<>>
    ELSE IF Listed(entries[k], dur)
         THEN Append(SymObjs(entries, dur, k - 1), SymObj(k, entries[k], dur))
         ELSE SymObjs(entries, dur, k - 1)

\* sum(changes)
RECURSIVE SumChanges(_)
SumChanges(changes) ==
    IF Len(changes) = 0 THEN RatInt(0)
    ELSE RatAdd(Val(changes[1].change_pct), SumChanges(Tail(changes)))

\* A slip in the average: a missing change counts as 0 and the sum is
\* divided by the number of symbols.
SectorAverageOverAll(symbols) ==
    LET changes == SelectSeq(symbols, LAMBDA o : ~IsNone(o.change_pct))
    IN  IF Len(symbols) > 0
        THEN Some(RatDivInt(SumChanges(changes), Len(symbols)))
        ELSE None

\* changes = [s["change_pct"] for s in symbols if s.get("change_pct") is not None]
\* avg_change_pct = sum(changes) / len(changes) if changes else None
SectorAverage(symbols) ==
    LET changes == SelectSeq(symbols, LAMBDA o : ~IsNone(o.change_pct))
    IN  IF Len(changes) > 0
        THEN Some(RatDivInt(SumChanges(changes), Len(changes)))
        ELSE None

NoSectors == [n \in {} |-> 0]
HeatmapPending == [status |-> "pending", sectors |-> NoSectors]

\* The whole handler.  status is "ok" for the 200 response, "error400",
\* "error500", "error404" for the error responses, "raised" when
\* read_latest_from_csv raises.
SectorHeatmap(univ, dur) ==
    IF dur \notin ValidDurations THEN [HeatmapPending EXCEPT !.status = "error400"]
    ELSE IF ~univ.exists THEN [HeatmapPending EXCEPT !.status = "error500"]
    ELSE
    LET entries == univ.entries
    IN  IF \E i \in 1..Len(entries) :
              ~IsNone(entries[i].file) /\ LatestOf(entries[i], dur).status = "raised"
        THEN [HeatmapPending EXCEPT !.status = "raised"]
        ELSE
        LET objs  == SymObjs(entries, dur, Len(entries))
            names == { objs[i].sector : i \in 1..Len(objs) }
            symbolsOf(n) == SelectSeq(objs, LAMBDA o : o.sector = n)
        IN  IF names = {} THEN [HeatmapPending EXCEPT !.status = "error404"]
            ELSE [status  |-> "ok",
                  sectors |-> [n \in names |->
                                 [symbols        |-> symbolsOf(n),
                                  avg_change_pct |-> SectorAverage(symbolsOf(n))]]]

\* csv files of the universe's symbols
WeekFile(old, new) == << <<Ymd(2024, 1, 1), Num(old)>>, <<Ymd(2024, 1, 8), Num(new)>> >>
FilePool ==
    { None,                                          \* no csv for the symbol
      Some(<< <<Text(4, 0), Text(5, 0)>> >>),        \* a header and no data
      Some(WeekFile(100, 102)),
      Some(WeekFile(100, 104)),
      Some(WeekFile(100, 95)),
      Some(WeekFile(0, 110)),                        \* no change defined
      Some(<< <<Ymd(2024, 13, 1), Num(100)>> >>) }
SectorPool == {"", "Tech"}
EntryPool == [sector : SectorPool, file : FilePool]

InitSector ==
    /\ \/ universe = [exists |-> FALSE, entries |-> <<>>]
       \/ \E k \in 0..MaxSymbols :
            \E es \in [1..k -> EntryPool] : universe = [exists |-> TRUE, entries |-> es]
    /\ duration \in {"1w", "2w"}
    /\ heatmap = HeatmapPending

SectorHeatmapRequest ==
    /\ heatmap.status = "pending"
    /\ heatmap' = SectorHeatmap(universe, duration)
    /\ UNCHANGED <<universe, duration>>

(***************************************************************************)
(* scripts/ingest.py, main from the download loop on.  The symbols are     *)
(* known by their position 1..total; a download raises or returns, save_df *)
(* writes, skips an empty frame or raises.  write_progress hands its       *)
(* object to the progress file when one was given, and a failing write is  *)
(* logged and dropped.                                                     *)
(***************************************************************************)
ProgressRecord(t, d, cur, st) == [total |-> t, done |-> d, current |-> cur, status |-> st]

\* write_progress({"total": total, "done": 0, "current": None, "status": "running"})
FirstRecord(t) == ProgressRecord(t, 0, None, "running")

\* A slip: the record of the last symbol already says 'finished'.
SymbolRecordEager(t, i) ==
    ProgressRecord(t, i + 1, Some(i + 1), IF i + 1 = t THEN "finished" ELSE "running")

\* done = i + 1; write_progress({..., "done": done, "current": sym, "status": "running"})
SymbolRecord(t, i) == ProgressRecord(t, i + 1, Some(i + 1), "running")

\* write_progress({"total": total, "done": total, "current": None, "status": "finished"})
FinalRecord(t) == ProgressRecord(t, t, None, "finished")

\* write_progress(obj): nothing without a progress file; wrote is whether the
\* temporary file could be written and moved over the progress file
WriteProgress(obj, wrote) ==
    /\ records' = Append(records, obj)
    /\ progress_file' =
          IF ~progress_file.given THEN progress_file
          ELSE IF wrote THEN [progress_file EXCEPT !.content = Some(obj)]
          ELSE [progress_file EXCEPT !.failed = TRUE]

\* the outcomes a write can have
Writes == IF progress_file.given THEN BOOLEAN ELSE {TRUE}

\* the loop goes on with symbol i + 1, or is over
NextSymbol(i, what) ==
    [pc       |-> IF i + 1 < total THEN "download" ELSE "finish",
     i        |-> IF i + 1 < total THEN i + 1 ELSE i,
     outcomes |-> Append(ingest.outcomes, what)]

IngestPending == [pc |-> "start", i |-> 0, outcomes |-> <<>>]
NoProgressFile == [given |-> FALSE, content |-> None, failed |-> FALSE]

InitIngest ==
    /\ total \in 0..MaxIngestSymbols
    /\ ingest = IngestPending
    /\ records = <<>>
    /\ \E g \in BOOLEAN : progress_file = [NoProgressFile EXCEPT !.given = g]

\* total = len(symbols); the first write_progress
StartProgress ==
    /\ ingest.pc = "start"
    /\ \E wrote \in Writes : WriteProgress(FirstRecord(total), wrote)
    /\ ingest' = [ingest EXCEPT !.pc = IF total = 0 THEN "finish" ELSE "download"]
    /\ UNCHANGED total

\* df = download_symbol(sym, ...): an exception is logged and the loop continues
DownloadSymbol ==
    /\ ingest.pc = "download"
    /\ \E ok \in BOOLEAN :
          ingest' = IF ok THEN [ingest EXCEPT !.pc = "save"]
                    ELSE NextSymbol(ingest.i, "download_failed")
    /\ UNCHANGED <<total, records, progress_file>>

\* save_df(df, out_path), its exception logged; then the progress of the symbol
SaveSymbol ==
    /\ ingest.pc = "save"
    /\ \E wrote \in Writes : WriteProgress(SymbolRecord(total, ingest.i), wrote)
    /\ \E what \in {"saved", "empty", "save_failed"} : ingest' = NextSymbol(ingest.i, what)
    /\ UNCHANGED total

\* after the loop: the last write_progress, return 0
FinishProgress ==
    /\ ingest.pc = "finish"
    /\ \E wrote \in Writes : WriteProgress(FinalRecord(total), wrote)
    /\ ingest' = [ingest EXCEPT !.pc = "done"]
    /\ UNCHANGED total

(***************************************************************************)
(* cache.py: the wrapper cached(ttl_seconds) builds, and clean_cache.  A   *)
(* key stands for the string func.__name__:args:kwargs.  time.time() is    *)
(* the wall clock, read once per call or sweep; it may stand still or step *)
(* back.  The wrapped function returns one of Results, or raises.          *)
(***************************************************************************)
Keys == {"f:(1,):{}", "f:(2,):{}"}
Results == {0, 1}
Times == 0..MaxTime
Ttls == {0, 2}

Entry(result, timestamp) == Some([result |-> result, timestamp |-> timestamp])

\* A slip: an entry as old as the ttl is still served.
FreshInclusive(now, timestamp, ttl) == now - timestamp <= ttl

\* now - timestamp < ttl_seconds
Fresh(now, timestamp, ttl) == now - timestamp < ttl

\* cache_key in cache, and the entry young enough
Hit(key, now) ==
    /\ ~IsNone(cache[key])
    /\ Fresh(now, Val(cache[key]).timestamp, ttl_seconds)

NoCall == [n |-> 0, key |-> "", now |-> 0, invoked |-> 0, outcome |-> "pending",
           returned |-> None]
EmptyCache == [k \in Keys |-> None]

InitCache ==
    /\ cache = EmptyCache
    /\ ttl_seconds \in Ttls
    /\ cache_call = NoCall
    /\ cache_ops = 0

\* wrapper(*args, **kwargs): served from the cache
CachedCallHit ==
    /\ cache_ops < MaxOps
    /\ \E key \in Keys, now \in Times :
          /\ Hit(key, now)
          /\ cache_call' = [n |-> cache_call.n + 1, key |-> key, now |-> now,
                            invoked |-> 0, outcome |-> "returned",
                            returned |-> Some(Val(cache[key]).result)]
    /\ cache_ops' = cache_ops + 1
    /\ UNCHANGED <<cache, ttl_seconds>>

\* wrapper(*args, **kwargs): the function is called and its result stored
CachedCallMiss ==
    /\ cache_ops < MaxOps
    /\ \E key \in Keys, now \in Times, result \in Results :
          /\ ~Hit(key, now)
          /\ cache' = [cache EXCEPT ![key] = Entry(result, now)]
          /\ cache_call' = [n |-> cache_call.n + 1, key |-> key, now |-> now,
                            invoked |-> 1, outcome |-> "returned",
                            returned |-> Some(result)]
    /\ cache_ops' = cache_ops + 1
    /\ UNCHANGED ttl_seconds

\* wrapper(*args, **kwargs): the function is called and raises
CachedCallRaises ==
    /\ cache_ops < MaxOps
    /\ \E key \in Keys, now \in Times :
          /\ ~Hit(key, now)
          /\ cache_call' = [n |-> cache_call.n + 1, key |-> key, now |-> now,
                            invoked |-> 1, outcome |-> "raised", returned |-> None]
    /\ cache_ops' = cache_ops + 1
    /\ UNCHANGED <<cache, ttl_seconds>>

\* clean_cache(max_age_seconds)
CleanCache ==
    /\ cache_ops < MaxOps
    /\ \E now \in Times, max_age_seconds \in Times :
          cache' = [k \in Keys |->
                      IF ~IsNone(cache[k]) /\ now - Val(cache[k]).timestamp > max_age_seconds
                      THEN None ELSE cache[k]]
    /\ cache_ops' = cache_ops + 1
    /\ UNCHANGED <<ttl_seconds, cache_call>>

(***************************************************************************)
(* The specifications: one function each, the variables of the others at   *)
(* rest.                                                                   *)
(***************************************************************************)
ChangeIdle == csv_rows = <<>> /\ duration = "1d" /\ latest = Pending
CrossIdle  == macd_hist = <<>> /\ macd_crossover = "pending"
IndIdle    == ind_closes = [file |-> "missing", cells |-> <<>>] /\ ind_result = IndPending
SectorIdle == universe = [exists |-> FALSE, entries |-> <<>>] /\ heatmap = HeatmapPending
IngestIdle ==
    total = 0 /\ ingest = IngestPending /\ records = <<>> /\ progress_file = NoProgressFile
CacheIdle ==
    cache = EmptyCache /\ ttl_seconds = 0 /\ cache_call = NoCall /\ cache_ops = 0
OtherIdle  == IngestIdle /\ CacheIdle

ChangeStart == InitChange /\ CrossIdle /\ IndIdle /\ SectorIdle /\ OtherIdle
NextChange == ReadLatestFromCsv /\ UNCHANGED <<crossVars, indVars, sectorVars, otherVars>>
SpecChange == ChangeStart /\ [][NextChange]_vars

CrossStart == InitCross /\ ChangeIdle /\ IndIdle /\ SectorIdle /\ OtherIdle
NextCross == ClassifyCrossover /\ UNCHANGED <<changeVars, indVars, sectorVars, otherVars>>
SpecCross == CrossStart /\ [][NextCross]_vars

IndStart == InitInd /\ ChangeIdle /\ CrossIdle /\ SectorIdle /\ OtherIdle
NextInd == ComputeIndicatorsFromCsv /\ UNCHANGED <<changeVars, crossVars, sectorVars, otherVars>>
SpecInd == IndStart /\ [][NextInd]_vars

TrendStart == InitTrend /\ ChangeIdle /\ CrossIdle /\ SectorIdle /\ OtherIdle
NextTrend == ComputeAllIndicators /\ UNCHANGED <<changeVars, crossVars, sectorVars, otherVars>>
SpecTrend == TrendStart /\ [][NextTrend]_vars

SectorStart ==
    InitSector /\ csv_rows = <<>> /\ latest = Pending /\ CrossIdle /\ IndIdle /\ OtherIdle
NextSector ==
    SectorHeatmapRequest /\ UNCHANGED <<csv_rows, latest, crossVars, indVars, otherVars>>
SpecSector == SectorStart /\ [][NextSector]_vars

\* main is sequential and each of its steps returns, so a run goes on while
\* a step is left to take
IngestStart == InitIngest /\ ChangeIdle /\ CrossIdle /\ IndIdle /\ SectorIdle /\ CacheIdle
NextIngest ==
    /\ StartProgress \/ DownloadSymbol \/ SaveSymbol \/ FinishProgress
    /\ UNCHANGED <<changeVars, crossVars, indVars, sectorVars, cacheVars>>
SpecIngest == IngestStart /\ [][NextIngest]_vars /\ WF_vars(NextIngest)

CacheStart == InitCache /\ ChangeIdle /\ CrossIdle /\ IndIdle /\ SectorIdle /\ IngestIdle
NextCache ==
    /\ CachedCallHit \/ CachedCallMiss \/ CachedCallRaises \/ CleanCache
    /\ UNCHANGED <<changeVars, crossVars, indVars, sectorVars, ingestVars>>
SpecCache == CacheStart /\ [][NextCache]_vars

(***************************************************************************)
(* Properties of read_latest_from_csv.                                     *)
(***************************************************************************)
data_rows == DataRows(csv_rows)
DateOf(r) == Strptime(r[1])
Dated == { i \in 1..Len(data_rows) : ~IsNone(DateOf(data_rows[i])) }
Day(i) == Val(DateOf(data_rows[i]))
\* last_date - timedelta(days = duration_days), when the last row has a date
TargetDay == Day(Len(data_rows)) - DurationDays(duration)
Dist(i) == Abs(Day(i) - TargetDay)
Matched == latest.prev # 0

\* The rows are a price series: every data row has a date, in ascending order.
IsSeries ==
    /\ Dated = 1..Len(data_rows)
    /\ \A i, j \in Dated : i < j => Day(i) <= Day(j)

\* C1: on every non-empty series and for every horizon the matched row is at
\* the least day-distance from target_date = last.date - horizon_days among
\* all rows, and of the rows at that distance it is the one dated earliest.
C1_NearestEarliest ==
    (IsSeries /\ Matched) =>
        \A i \in Dated :
            /\ Dist(latest.prev) <= Dist(i)
            /\ Dist(latest.prev) = Dist(i) => Day(latest.prev) <= Day(i)

\* A tie was broken: two rows of a series at the same distance on either side
\* of the target, and the matched one is the earlier.
C1_Witness ==
    /\ IsSeries /\ Matched /\ latest.status = "ok"
    /\ \E i \in Dated :
          /\ Day(i) > Day(latest.prev)
          /\ Dist(i) = Dist(latest.prev)

\* the field the code takes as a row's close: the third when there is a
\* non-empty one, else the second
CloseField(r) ==
    IF Len(r) > 2 /\ r[3] # EmptyField THEN Some(r[3])
    ELSE IF Len(r) > 1 THEN Some(r[2]) ELSE None
CloseOf(r) == IF IsNone(CloseField(r)) THEN None ELSE Float(Val(CloseField(r)))

WeekScenario ==
    /\ csv_rows = << <<Ymd(2024, 1, 1), Num(100)>>, <<Ymd(2024, 1, 8), Num(110)>> >>
    /\ duration = "1w"

\* the day seven days before the last row's
WeekBack == Day(Len(data_rows)) - 7

\* C2: when a row is dated exactly last.date - 7 days, horizon "1w" matches a
\* row of that date (distance 0) and takes the previous close from it; on
\* [(2024-01-01, 100), (2024-01-08, 110)] the matched row is 2024-01-01 and
\* change_pct is 10.
C2_ExactWeek ==
    /\ (Matched /\ duration = "1w" /\ \E i \in Dated : Day(i) = WeekBack) =>
          /\ Day(latest.prev) = WeekBack
          /\ latest.status = "ok" =>
                latest.prev_close = CloseOf(data_rows[latest.prev])
    /\ (WeekScenario /\ latest.status # "pending") =>
          /\ latest.status = "ok"
          /\ data_rows[latest.prev][1] = Ymd(2024, 1, 1)
          /\ latest.change_pct = Some(RatInt(10))

\* A file ran in which the row one week back has a neighbour one day nearer
\* to the last row, and the row one week back was matched.
C2_Witness ==
    /\ latest.status = "ok" /\ duration = "1w"
    /\ Len(data_rows) = 3
    /\ Day(latest.prev) = WeekBack
    /\ \E i \in Dated : Day(i) = WeekBack + 1

\* The last row is usable: its date parses and one of the close columns does.
LastUsable ==
    /\ Len(data_rows) > 0
    /\ LET last == data_rows[Len(data_rows)]
       IN  /\ ~IsNone(DateOf(last))
           /\ \/ ~IsNone(CloseOf(last))
              \/ Len(last) > 1 /\ ~IsNone(Float(last[2]))

\* C3: None is returned only when there is no data row or the last row is
\* unusable; on a usable one a summary is returned whose change_pct is
\* (close - matched close) / matched close * 100 when the matched close is
\* defined and not zero and absent otherwise, with prev_close absent when the
\* matched row's close does not parse.
C3_AbsentOnlyUnusable ==
    /\ latest.status = "none" => ~LastUsable
    /\ (latest.status # "pending" /\ LastUsable) =>
          /\ latest.status = "ok"
          /\ Matched
          /\ latest.prev_close = CloseOf(data_rows[latest.prev])
          /\ LET pc == latest.prev_close
             IN  IF ~IsNone(pc) /\ Val(pc) # 0
                 THEN latest.change_pct =
                        Some(Rat((Val(latest.close) - Val(pc)) * 100, Val(pc)))
                 ELSE latest.change_pct = None

\* A summary was returned although the matched row's close does not parse.
C3_Witness ==
    /\ latest.status = "ok"
    /\ latest.prev # Len(data_rows)
    /\ IsNone(CloseOf(data_rows[latest.prev]))
    /\ latest.prev_close = None /\ latest.change_pct = None

\* C8: read_latest_from_csv never raises on rows that pass the data-row
\* heuristic but whose date or close does not parse.
C8_NeverRaises == latest.status # "raised"

\* C9: the row used as last is the row with the greatest date, in whatever
\* order the rows arrive.
C9_LastIsLatest ==
    latest.status = "ok" =>
        \A i \in Dated : Day(i) <= Val(Strptime(Val(latest.date)))

(***************************************************************************)
(* Properties of the crossover classification.                             *)
(***************************************************************************)
Classified == macd_crossover # "pending"
HasTwo == Len(macd_hist) >= 2
HistPrev == macd_hist[Len(macd_hist) - 1]
HistCurr == macd_hist[Len(macd_hist)]

\* C4: the classification is bullish exactly when prev <= 0 < curr, bearish
\* exactly when prev >= 0 > curr, and neutral in every other case, fewer than
\* two histogram values included; it is never both.
C4_CrossoverIff ==
    Classified =>
        /\ macd_crossover \in {"bullish", "bearish", "neutral"}
        /\ macd_crossover = "bullish" <=> (HasTwo /\ HistPrev <= 0 /\ 0 < HistCurr)
        /\ macd_crossover = "bearish" <=> (HasTwo /\ HistPrev >= 0 /\ 0 > HistCurr)
        /\ ~HasTwo => macd_crossover = "neutral"

\* A histogram leaving zero upwards was classified bullish.
C4_Witness ==
    /\ Classified /\ HasTwo
    /\ HistPrev = 0 /\ HistCurr > 0
    /\ macd_crossover = "bullish"

Swapped == <<HistCurr, HistPrev>>

\* C5, as claimed: the swapped pair (b, a) is classified differently from
\* (a, b) unless a and b are both zero.
C5_SwapDiffers ==
    (Classified /\ Len(macd_hist) = 2 /\ ~(HistPrev = 0 /\ HistCurr = 0)) =>
        MacdCrossover(Swapped) # macd_crossover

\* C5, amended: a pair classified bullish or bearish is classified differently
\* when swapped; only pairs that are neutral in both orders keep their
\* classification.
C5_SwapDiffersOnCrossing ==
    (Classified /\ Len(macd_hist) = 2) =>
        /\ macd_crossover \in {"bullish", "bearish"} =>
              MacdCrossover(Swapped) # macd_crossover
        /\ MacdCrossover(Swapped) = macd_crossover => macd_crossover = "neutral"

\* A crossing pair was classified, and its swap is the opposite crossing.
C5_Witness ==
    /\ Classified /\ Len(macd_hist) = 2
    /\ macd_crossover = "bullish"
    /\ MacdCrossover(Swapped) = "bearish"

(***************************************************************************)
(* Properties of compute_indicators_from_csv.                              *)
(***************************************************************************)
Cells == ind_closes.cells
Computed == ind_result.status = "ok"
\* every close of the column is a number
FiniteCloses == \A i \in 1..Len(Cells) : Cells[i].kind = "num"
NonDecreasing ==
    \A i \in 1..(Len(Cells) - 1) : Cells[i].a <= Cells[i + 1].a
\* the rows whose close is resolvable
Usable == { i \in 1..Len(Cells) : Cells[i].kind = "num" }

\* C6: on a finite close series the reported RSI is absent or in [0, 100];
\* it is absent whenever the smoothed average loss at the last row is zero,
\* and so on every non-decreasing series.
C6_RsiRange ==
    (Computed /\ FiniteCloses) =>
        /\ ~IsNone(ind_result.rsi) =>
              /\ ~Val(ind_result.rsi).neg
              /\ BigLeq(Val(ind_result.rsi).n, BigMulInt(Val(ind_result.rsi).d, 100))
        /\ (~IsNone(ind_result.avg_loss) /\ FracIsZero(Val(ind_result.avg_loss))) =>
              IsNone(ind_result.rsi)
        /\ NonDecreasing => IsNone(ind_result.rsi)

\* An RSI strictly between 0 and 100 was reported for a finite series.
C6_Witness ==
    /\ Computed /\ FiniteCloses
    /\ ~IsNone(ind_result.rsi)
    /\ Val(ind_result.rsi).n # <<>>
    /\ BigLess(Val(ind_result.rsi).n, BigMulInt(Val(ind_result.rsi).d, 100))

\* A rising series was computed and its RSI is absent.
C6_RisingAbsent ==
    /\ Computed /\ FiniteCloses /\ NonDecreasing
    /\ Cells[1].a < Cells[Len(Cells)].a
    /\ IsNone(ind_result.rsi)

\* C7: a series with fewer than MinRows usable rows (rows with a resolvable
\* close) gives an absent result.
C7_FewUsableAbsent ==
    (ind_result.status \notin {"pending", "raised"} /\ Cardinality(Usable) < MinRows)
        => ind_result.status = "none"

(***************************************************************************)
(* Properties of the moving averages.                                      *)
(***************************************************************************)
\* the column is k closes, all the number c
ConstantAt(c, k) ==
    /\ ind_closes.file = "ok"
    /\ Len(Cells) = k
    /\ \A i \in 1..k : Cells[i] = Num(c)
IsZeroS(o) == ~IsNone(o) /\ SSign(Val(o)) = 0

\* C11: on a column of at least MinRows rows whose close is constant at c
\* (the scenario is 20 rows at 50) the result has no RSI, average gain and
\* average loss both zero, EMA(21) at the last row equal to c, the MACD
\* histogram at the last row equal to 0 and the crossover 'neutral'.
C11_ConstantSeries ==
    \A c \in TrendPool, k \in MinRows..MaxTrendRows :
        (ConstantAt(c, k) /\ ind_result.status # "pending") =>
            /\ ind_result.status = "ok"
            /\ IsNone(ind_result.rsi)
            /\ ~IsNone(ind_result.avg_gain) /\ FracIsZero(Val(ind_result.avg_gain))
            /\ ~IsNone(ind_result.avg_loss) /\ FracIsZero(Val(ind_result.avg_loss))
            /\ ind_result.ema21 = Some(SInt(c))
            /\ IsZeroS(ind_result.macd_hist)
            /\ ind_result.macd_crossover = "neutral"

\* the scenario itself: 20 rows at 50, computed
C11_Witness ==
    /\ ConstantAt(50, 20)
    /\ ind_result.status = "ok"
    /\ IsNone(ind_result.rsi)
    /\ ind_result.ema21 = Some(SInt(50))
    /\ IsZeroS(ind_result.macd_hist)
    /\ ind_result.macd_crossover = "neutral"

(***************************************************************************)
(* Properties of sector_heatmap.                                           *)
(***************************************************************************)
\* the entries listed under sector n
Members(n) ==
    { i \in 1..Len(universe.entries) :
        /\ Listed(universe.entries[i], duration)
        /\ SectorName(universe.entries[i]) = n }
ChangeOfEntry(i) == LatestOf(universe.entries[i], duration).change_pct
Defined(n) == { i \in Members(n) : ~IsNone(ChangeOfEntry(i)) }

RECURSIVE SumOver(_)
SumOver(S) ==
    IF S = {} THEN RatInt(0)
    ELSE LET i == CHOOSE x \in S : TRUE
         IN  RatAdd(Val(ChangeOfEntry(i)), SumOver(S \ {i}))

TwoAbsentFour ==
    /\ universe.exists
    /\ universe.entries = << [sector |-> "Tech", file |-> Some(WeekFile(100, 102))],
                             [sector |-> "Tech", file |-> Some(WeekFile(0, 110))],
                             [sector |-> "Tech", file |-> Some(WeekFile(100, 104))] >>
    /\ duration = "1w"

\* C10: avg_change_pct of every sector is the mean of change_pct over the
\* symbols of the sector whose change_pct is defined, and absent (not zero)
\* when none is; [2.0, absent, 4.0] gives 3.0.
C10_SectorMean ==
    /\ heatmap.status = "ok" =>
          \A n \in DOMAIN heatmap.sectors :
              /\ Members(n) # {}
              /\ heatmap.sectors[n].avg_change_pct =
                    IF Defined(n) = {} THEN None
                    ELSE Some(RatDivInt(SumOver(Defined(n)), Cardinality(Defined(n))))
    /\ (TwoAbsentFour /\ heatmap.status # "pending") =>
          /\ heatmap.status = "ok"
          /\ heatmap.sectors["Tech"].avg_change_pct = Some(RatInt(3))

\* One sector was built from symbols of which some but not all have a
\* change, and another from symbols none of which has one.
C10_Witness ==
    /\ heatmap.status = "ok"
    /\ \E n \in DOMAIN heatmap.sectors :
          /\ Defined(n) # {} /\ Defined(n) # Members(n)
          /\ ~IsNone(heatmap.sectors[n].avg_change_pct)
    /\ \E n \in DOMAIN heatmap.sectors :
          /\ Defined(n) = {}
          /\ IsNone(heatmap.sectors[n].avg_change_pct)

(***************************************************************************)
(* Properties of the ingest main loop.                                     *)
(***************************************************************************)
LastRecord == records[Len(records)]

\* what holds of the records handed to write_progress at every moment
RecordsInOrder ==
    /\ \A j \in 1..Len(records) :
          /\ records[j].total = total
          /\ 0 <= records[j].done /\ records[j].done <= total
    /\ \A j \in 1..(Len(records) - 1) :
          /\ records[j].done <= records[j + 1].done
          /\ records[j].status = "running"
    /\ (progress_file.given /\ ~progress_file.failed /\ records # <<>>) =>
          progress_file.content = Some(LastRecord)

\* the run is over and its last record says so
EndsFinished ==
    /\ ingest.pc = "done"
    /\ records # <<>>
    /\ LastRecord.status = "finished"
    /\ LastRecord.done = total

\* C12: in every run of the main loop, whichever downloads and saves fail,
\* every progress record has 0 <= done <= total, done never decreases from a
\* record to the next, every record but the last has status 'running', and
\* the run ends with a last record of status 'finished' and done = total;
\* the progress file holds the last record when one was given and every
\* write to it succeeded.
C12_ProgressRecords == []RecordsInOrder /\ <>[]EndsFinished

\* a finished run of three symbols: one download failed (no record of that
\* symbol), one save failed
C12_Witness ==
    /\ EndsFinished
    /\ total = 3
    /\ Len(records) = 4
    /\ progress_file.given /\ ~progress_file.failed
    /\ \E a, b \in 1..Len(ingest.outcomes) :
          ingest.outcomes[a] = "download_failed" /\ ingest.outcomes[b] = "save_failed"

(***************************************************************************)
(* Properties of the cache.                                                *)
(***************************************************************************)
\* the step is a call of the wrapper
IsCall == cache_call'.n # cache_call.n
CallKey == cache_call'.key
CallNow == cache_call'.now
\* before the call an entry of the key exists whose timestamp is less than
\* ttl_seconds before the call time
YoungEntry ==
    /\ ~IsNone(cache[CallKey])
    /\ CallNow - Val(cache[CallKey]).timestamp < ttl_seconds

CallAsClaimed ==
    IsCall =>
        /\ (cache_call'.invoked = 0) <=> YoungEntry
        /\ YoungEntry =>
              /\ cache_call'.returned = Some(Val(cache[CallKey]).result)
              /\ cache' = cache
        /\ ~YoungEntry =>
              /\ cache_call'.invoked = 1
              /\ cache_call'.outcome = "returned" =>
                    /\ ~IsNone(cache_call'.returned)
                    /\ cache' = [cache EXCEPT
                                   ![CallKey] = Entry(Val(cache_call'.returned), CallNow)]
        /\ cache_call'.outcome = "returned" =>
              /\ Val(cache'[CallKey]).result = Val(cache_call'.returned)
              /\ CallNow - Val(cache'[CallKey]).timestamp <= ttl_seconds
              /\ cache_call'.invoked = 0 =>
                    CallNow - Val(cache'[CallKey]).timestamp < ttl_seconds

\* C13: after any sequence of calls and sweeps, a call returns the stored
\* result without invoking the function exactly when an entry of its key
\* exists whose timestamp is less than ttl_seconds before the call time;
\* otherwise the function is invoked once and, when it returns, the entry
\* becomes the new result with the call time; the value a call returns is
\* never older than ttl_seconds.
C13_FreshOrRecomputed == [][CallAsClaimed]_vars

\* a call served from the cache at the last moment of the entry's life,
\* after at least two earlier calls and a sweep, the other key cached too
C13_Witness ==
    /\ ttl_seconds = 2
    /\ cache_call.n >= 3
    /\ cache_ops > cache_call.n
    /\ cache_call.invoked = 0
    /\ cache_call.outcome = "returned"
    /\ ~IsNone(cache[cache_call.key])
    /\ cache_call.now - Val(cache[cache_call.key]).timestamp = ttl_seconds - 1
    /\ \E k \in Keys : k # cache_call.key /\ ~IsNone(cache[k])

====
